---- MODULE Spec2Model ----
(***************************************************************************)
(* Model of data/2025/geocode_hospitals_csv.py: the batch geocoder that    *)
(* reads a hospital CSV, resolves each row through a three tier fallback   *)
(* chain against the Census geocoder with a per-run cache keyed by the     *)
(* primary address, and writes the augmented rows plus a table of the      *)
(* rows that stayed without coordinates.                                   *)
(*                                                                         *)
(* Representation.                                                         *)
(*  - Address fields and address strings are sequences of characters, so   *)
(*    strip() and ", ".join() are computed, not assumed.                   *)
(*  - A cell value (Latitude, Longitude) is a record [k, n]: k = "None"    *)
(*    (Python None), "empty" (the string ""), "bad" (a non-empty string    *)
(*    float() rejects), "numstr" (a string float() accepts, of value n)    *)
(*    or "float" (a Python float of value n).  n counts millionths of a    *)
(*    degree.                                                              *)
(*  - Geo_Source / Geo_Confidence values are strings; NoneS stands for     *)
(*    Python None.                                                         *)
(*  - rows[idx] is read exactly once, at the top of its loop iteration,    *)
(*    and rows never influence one another, so the content of rows[idx] is *)
(*    drawn when the iteration starts; the number of rows and the header   *)
(*    are fixed from the start.                                            *)
(***************************************************************************)
EXTENDS Integers, Sequences, FiniteSets, Bags, TLC

\* ------------------------------------------------------------------ bounds
MaxRows == 2

\* --------------------------------------------------------------- constants
STREET_COL == "Street_Address"
CITY_COL   == "City"
STATE_COL  == "State"
ZIP_COL    == "ZIP_Code"
HOSP_COL   == "Hospital_Name"

RequiredCols == <<STREET_COL, CITY_COL, STATE_COL, ZIP_COL, HOSP_COL>>
ResultCols   == <<"Latitude", "Longitude", "Geo_Source", "Geo_Confidence">>

NoneS == "<None>"
NoneV == [k |-> "None", n |-> 0]
EmptyV == [k |-> "empty", n |-> 0]
BadV == [k |-> "bad", n |-> 0]
NumStr(x) == [k |-> "numstr", n |-> x]
Float(x) == [k |-> "float", n |-> x]

\* ------------------------------------------------------ pure string helpers
IsSpace(c) == c = " "

RECURSIVE LStrip(_)
LStrip(s) == IF s # <<>> /\ IsSpace(Head(s)) THEN LStrip(Tail(s)) ELSE s

RECURSIVE RStrip(_)
RStrip(s) ==
    IF s # <<>> /\ IsSpace(s[Len(s)]) THEN RStrip(SubSeq(s, 1, Len(s) - 1)) ELSE s

Strip(s) == RStrip(LStrip(s))

RECURSIVE JoinWith(_, _)
JoinWith(parts, sep) ==
    IF parts = <<>> THEN <<>>
    ELSE IF Len(parts) = 1 THEN Head(parts)
    ELSE Head(parts) \o sep \o JoinWith(Tail(parts), sep)

join_nonempty(parts) ==
    JoinWith(SelectSeq(parts, LAMBDA p : p # <<>>), <<",", " ">>)

build_primary_address(r) ==
    join_nonempty(<<Strip(r.Street_Address), Strip(r.City), Strip(r.State), Strip(r.ZIP_Code)>>)

build_hospital_address(r) ==
    join_nonempty(<<Strip(r.Hospital_Name), Strip(r.City), Strip(r.State), Strip(r.ZIP_Code)>>)

build_city_address(r) ==
    join_nonempty(<<Strip(r.City), Strip(r.State), Strip(r.ZIP_Code)>>)

\* ------------------------------------------------------------ Python values
\* Truth value of a cell read from the CSV: None and "" are false.
Truthy(v) == v.k \notin {"None", "empty"}

\* float(v) succeeds on floats and on numeric strings only.
Numeric(v) == v.k \in {"numstr", "float"}

\* Text the csv writer puts in a cell: None becomes the empty cell.
CellText(v) == IF v.k = "None" THEN EmptyV
               ELSE IF v.k = "float" THEN NumStr(v.n) ELSE v

StrText(s) == IF s = NoneS THEN "" ELSE s


\* round(float(v), d) on a value of x millionths: the nearest multiple of
\* 10^(6-d) millionths, an exact tie going to the even multiple.
RoundTo(x, d) ==
    IF d >= 6 THEN x
    ELSE LET unit == 10 ^ (6 - d)
             q == x \div unit
             r == x - q * unit
         IN  IF 2 * r < unit THEN q * unit
             ELSE IF 2 * r > unit THEN (q + 1) * unit
             ELSE IF q % 2 = 0 THEN q * unit ELSE (q + 1) * unit

\* Lines 184-190: lat is rounded first; a value float() rejects raises, the
\* exception is swallowed and whatever was assigned before it is kept.
RoundCoords(la, lo, d) ==
    IF la.k # "None" /\ ~Numeric(la) THEN <<la, lo>>
    ELSE LET la2 == IF la.k = "None" THEN la ELSE Float(RoundTo(la.n, d))
         IN  IF lo.k # "None" /\ ~Numeric(lo) THEN <<la2, lo>>
             ELSE <<la2, IF lo.k = "None" THEN lo ELSE Float(RoundTo(lo.n, d))>>

\* --------------------------------------------------------- the geocoder call
\* A response of the Census service: no match candidate, or a first candidate
\* with its coordinate pair (y = latitude, x = longitude) and the tigerLine
\* side, which may be missing.
NoMatches == [found |-> FALSE, y |-> 0, x |-> 0, side |-> NoneS]
Responses ==
    { NoMatches,
      [found |-> TRUE, y |-> 40712776, x |-> -74005974, side |-> "L"],
      [found |-> TRUE, y |-> 38907192, x |-> -77036871, side |-> NoneS] }

Absent == <<NoneV, NoneV, NoneS>>

\* census_geocode(address) given the response the service sends.
census_geocode(address, resp) ==
    IF address = <<>> THEN Absent
    ELSE IF ~resp.found THEN Absent
    ELSE <<Float(resp.y), Float(resp.x), resp.side>>

\* "lat is not None and lon is not None"
Matched(la, lo) == la.k # "None" /\ lo.k # "None"

\* Variant of NeedsResolve that forgets the test of the coordinates.
NeedsResolve_NoCoordTest(la, lo, addr) == addr # <<>>

\* Variant of NeedsResolve that forgets the test of the address.
NeedsResolve_NoAddrTest(la, lo, addr) == ~(Truthy(la) /\ Truthy(lo))

\* Line 145: the row is resolved only without coordinates and with an address.
NeedsResolve(la, lo, addr) == ~(Truthy(la) /\ Truthy(lo)) /\ addr # <<>>

\* Variant of CacheHit that never finds the key.
CacheHit_Never(key, c) == FALSE

\* Line 148: the address was resolved before in this run.
CacheHit(key, c) == key \in DOMAIN c

\* Line 161: the hospital tier is tried only with a new, non-empty address.
HospitalTierApplies(hosp, primary) == hosp # <<>> /\ hosp # primary

\* Variant of CityTierApplies that forgets the test of the coordinates.
CityTierApplies_Always(la, lo, city) == city # <<>>

\* Lines 170-172: the city tier is tried while unmatched, with an address.
CityTierApplies(la, lo, city) == (la.k = "None" \/ lo.k = "None") /\ city # <<>>

\* Variant of DefaultSource that drops the incoming value.
DefaultSource_Dropped(s) == "census"

\* Line 143: row.get("Geo_Source") or "census"
DefaultSource(s) == IF s = NoneS \/ s = "" THEN "census" ELSE s

\* Line 197: the row goes to the unmatched list.
IsUnmatched(la, lo) == la.k = "None" \/ lo.k = "None"

\* Variant of EndIndex that takes the limit as an end index.
EndIndex_NoStart(n, a) == IF ~a.hasLimit THEN n ELSE IF n <= a.limit THEN n ELSE a.limit

\* Line 122
Min(a, b) == IF a <= b THEN a ELSE b
EndIndex(n, a) == IF ~a.hasLimit THEN n ELSE Min(n, a.start + a.limit)

InSeq(c, s) == \E i \in 1..Len(s) : s[i] = c

\* Variant of FirstMissing that tests the first column only.
FirstMissing_FirstOnly(cols, hdr) ==
    IF cols # <<>> /\ ~InSeq(Head(cols), hdr) THEN Head(cols) ELSE ""

\* Lines 109-113: the first required column the header lacks, "" if none.
RECURSIVE FirstMissing(_, _)
FirstMissing(cols, hdr) ==
    IF cols = <<>> THEN ""
    ELSE IF ~InSeq(Head(cols), hdr) THEN Head(cols)
    ELSE FirstMissing(Tail(cols), hdr)

\* Lines 116-119: the header plus the result columns it does not have yet.
RECURSIVE AppendMissing(_, _)
AppendMissing(hdr, cols) ==
    IF cols = <<>> THEN hdr
    ELSE AppendMissing(IF InSeq(Head(cols), hdr) THEN hdr ELSE Append(hdr, Head(cols)),
                       Tail(cols))

\* ------------------------------------------------------------------- inputs
\* Values of the address columns of a row.  " " is an all-blank cell.
StreetVals == { <<" ">>, <<"A">> }
CityVals   == { <<>>, <<"C">> }
StateVals  == { <<>> }
ZipVals    == { <<" ">> }
NameVals   == { <<>>, <<"H">> }

\* Values of the Latitude / Longitude cells when the input has the columns.
CoordPairs ==
    { <<EmptyV, EmptyV>>,
      <<NumStr(40712776), NumStr(-74005974)>>,
      <<NumStr(40712776), EmptyV>>,
      <<BadV, NumStr(-74005974)>> }
SourceVals == { "", "manual" }
ConfVals   == { "R" }

BaseHeader == <<HOSP_COL, STREET_COL, CITY_COL, STATE_COL, ZIP_COL>>
Without(hdr, c) == SelectSeq(hdr, LAMBDA h : h # c)
HeaderChoices ==
    { BaseHeader, BaseHeader \o ResultCols, <<HOSP_COL, "Latitude">> }
    \cup { Without(BaseHeader, RequiredCols[i]) : i \in 1..Len(RequiredCols) }

\* The rows a csv.DictReader can yield under a header: a column the header
\* lacks is absent from the row, and row.get() of it is None.
RowChoices(hdr) ==
    { [ Street_Address |-> st, City |-> ci, State |-> sa, ZIP_Code |-> zi,
        Hospital_Name |-> na, Latitude |-> ll[1], Longitude |-> ll[2],
        Geo_Source |-> so, Geo_Confidence |-> co ] :
        st \in StreetVals, ci \in CityVals, sa \in StateVals, zi \in ZipVals,
        na \in NameVals,
        ll \in (IF InSeq("Latitude", hdr) THEN CoordPairs ELSE { <<NoneV, NoneV>> }),
        so \in (IF InSeq("Geo_Source", hdr) THEN SourceVals ELSE { NoneS }),
        co \in (IF InSeq("Geo_Confidence", hdr) THEN ConfVals ELSE { NoneS }) }

NoRow ==
    [ Street_Address |-> <<>>, City |-> <<>>, State |-> <<>>, ZIP_Code |-> <<>>,
      Hospital_Name |-> <<>>, Latitude |-> NoneV, Longitude |-> NoneV,
      Geo_Source |-> NoneS, Geo_Confidence |-> NoneS ]

\* Command line: --start, --limit (absent by default), --round.
ArgChoices ==
    { [ start |-> 0, hasLimit |-> FALSE, limit |-> 0, round_decimals |-> 5 ],
      [ start |-> 1, hasLimit |-> FALSE, limit |-> 0, round_decimals |-> 2 ],
      [ start |-> 0, hasLimit |-> TRUE, limit |-> 1, round_decimals |-> 2 ],
      [ start |-> 1, hasLimit |-> TRUE, limit |-> 1, round_decimals |-> 5 ],
      [ start |-> 1, hasLimit |-> TRUE, limit |-> 0, round_decimals |-> 5 ] }

\* -------------------------------------------------------------------- state
VARIABLES
    pc,             \* position in main()
    args,           \* parsed command line
    infile,         \* the input CSV: its header and its number of data rows
    headers,        \* list(rows[0].keys())
    fieldnames,     \* columns of the output
    err,            \* the column the ERROR line names, "" if none
    end,            \* end of the index range
    idx,            \* loop index
    row,            \* rows[idx] as read
    primary_addr, lat, lon, conf, source,   \* locals of the iteration
    mode,           \* how the iteration got its result: skip, hit or miss
    cache,          \* primary address -> (lat, lon, conf)
    cache0,         \* the cache when the iteration started
    tried,          \* requests of this iteration: [tier, addr, matched]
    calls,          \* bag of all requests sent in the run: <<tier, address>>
    rowSleeps,      \* time.sleep calls of this iteration
    unmatched_rows, \* rows kept for the unmatched table
    out,            \* rows written to the output file, with their index
    outfile,        \* "absent", "open" or "closed"
    unmatchedFile   \* TRUE once unmatched_geocode.csv is written

vars == << pc, args, infile, headers, fieldnames, err, end, idx, row,
           primary_addr, lat, lon, conf, source, mode, cache, cache0, tried,
           calls, rowSleeps, unmatched_rows, out, outfile, unmatchedFile >>

rowVars == << row, primary_addr, lat, lon, conf, source, mode, cache0, tried, rowSleeps >>
setupVars == << args, infile, headers, fieldnames, err, end >>

EmptyCache == [ a \in {} |-> Absent ]

Init ==
    /\ pc = "read"
    /\ args \in ArgChoices
    /\ infile \in [ header : HeaderChoices, nrows : 0..MaxRows ]
    /\ headers = <<>>
    /\ fieldnames = <<>>
    /\ err = ""
    /\ end = 0
    /\ idx = 0
    /\ row = NoRow
    /\ primary_addr = <<>>
    /\ lat = NoneV
    /\ lon = NoneV
    /\ conf = NoneS
    /\ source = NoneS
    /\ mode = "none"
    /\ cache = EmptyCache
    /\ cache0 = EmptyCache
    /\ tried = <<>>
    /\ calls = EmptyBag
    /\ rowSleeps = 0
    /\ unmatched_rows = <<>>
    /\ out = <<>>
    /\ outfile = "absent"
    /\ unmatchedFile = FALSE

\* ------------------------------------------------------------------ actions
\* Lines 96-104: read the file; no data row ends the run at once.
ReadInput ==
    /\ pc = "read"
    /\ IF infile.nrows = 0
       THEN /\ pc' = "nodata"
            /\ UNCHANGED headers
       ELSE /\ pc' = "check"
            /\ headers' = infile.header
    /\ UNCHANGED << args, infile, fieldnames, err, end, idx, rowVars, cache,
                    calls, unmatched_rows, out, outfile, unmatchedFile >>

\* Lines 109-113: a required column the header lacks ends the run.
CheckColumns ==
    /\ pc = "check"
    /\ err' = FirstMissing(RequiredCols, headers)
    /\ pc' = IF err' # "" THEN "error" ELSE "prepare"
    /\ UNCHANGED << args, infile, headers, fieldnames, end, idx, rowVars, cache,
                    calls, unmatched_rows, out, outfile, unmatchedFile >>

\* Lines 116-130: output columns, index range, empty cache, output file opened.
Prepare ==
    /\ pc = "prepare"
    /\ fieldnames' = AppendMissing(headers, ResultCols)
    /\ end' = EndIndex(infile.nrows, args)
    /\ cache' = EmptyCache
    /\ unmatched_rows' = <<>>
    /\ outfile' = "open"
    /\ idx' = args.start
    /\ pc' = "loop"
    /\ UNCHANGED << args, infile, headers, err, rowVars, calls, out, unmatchedFile >>

\* Lines 132-149: start of an iteration, up to the cache test.
BeginRow ==
    /\ pc = "loop"
    /\ idx < end
    /\ \E r \in RowChoices(headers) :
         LET pa == build_primary_address(r) IN
         /\ row' = r
         /\ primary_addr' = pa
         /\ source' = DefaultSource(r.Geo_Source)
         /\ IF NeedsResolve(r.Latitude, r.Longitude, pa)
            THEN IF CacheHit(pa, cache)
                 THEN /\ lat' = cache[pa][1]
                      /\ lon' = cache[pa][2]
                      /\ conf' = cache[pa][3]
                      /\ mode' = "hit"
                      /\ pc' = "round"
                 ELSE /\ lat' = r.Latitude
                      /\ lon' = r.Longitude
                      /\ conf' = r.Geo_Confidence
                      /\ mode' = "miss"
                      /\ pc' = "tier1"
            ELSE /\ lat' = r.Latitude
                 /\ lon' = r.Longitude
                 /\ conf' = r.Geo_Confidence
                 /\ mode' = "skip"
                 /\ pc' = "round"
    /\ cache0' = cache
    /\ tried' = <<>>
    /\ rowSleeps' = 0
    /\ UNCHANGED << setupVars, idx, cache, calls, unmatched_rows, out, outfile,
                    unmatchedFile >>

\* census_geocode(address) called at `tier` and answered by `resp`.  An empty
\* address returns at once (line 66) and sends nothing.
Lookup(tier, address, resp) ==
    LET res == census_geocode(address, resp) IN
    /\ lat' = res[1]
    /\ lon' = res[2]
    /\ conf' = res[3]
    /\ tried' = IF address = <<>> THEN tried
                ELSE Append(tried, [ tier |-> tier, addr |-> address,
                                     matched |-> Matched(res[1], res[2]) ])
    /\ calls' = IF address = <<>> THEN calls
                ELSE calls (+) SetToBag({ <<tier, address>> })

NoLookup == UNCHANGED << lat, lon, conf, tried, calls >>

\* Lines 152-157: attempt 1, the primary address.
Attempt1 ==
    /\ pc = "tier1"
    /\ \E resp \in Responses : Lookup(1, primary_addr, resp)
    /\ IF Matched(lat', lon')
       THEN /\ source' = "census_primary"
            /\ pc' = "store"
       ELSE /\ source' = source
            /\ pc' = "tier2"
    /\ UNCHANGED << setupVars, idx, row, primary_addr, mode, cache, cache0,
                    rowSleeps, unmatched_rows, out, outfile, unmatchedFile >>

\* Lines 160-167: attempt 2, the hospital name address.
Attempt2 ==
    /\ pc = "tier2"
    /\ LET hosp_addr == build_hospital_address(row) IN
       IF HospitalTierApplies(hosp_addr, primary_addr)
       THEN /\ \E resp \in Responses : Lookup(2, hosp_addr, resp)
            /\ source' = IF Matched(lat', lon') THEN "census_hospital" ELSE source
       ELSE /\ NoLookup
            /\ source' = source
    /\ pc' = "tier3"
    /\ UNCHANGED << setupVars, idx, row, primary_addr, mode, cache, cache0,
                    rowSleeps, unmatched_rows, out, outfile, unmatchedFile >>

\* Lines 170-178: attempt 3, the city address.
Attempt3 ==
    /\ pc = "tier3"
    /\ LET city_addr == build_city_address(row) IN
       IF CityTierApplies(lat, lon, city_addr)
       THEN /\ \E resp \in Responses : Lookup(3, city_addr, resp)
            /\ source' = IF Matched(lat', lon') THEN "census_city" ELSE source
       ELSE /\ NoLookup
            /\ source' = source
    /\ pc' = "store"
    /\ UNCHANGED << setupVars, idx, row, primary_addr, mode, cache, cache0,
                    rowSleeps, unmatched_rows, out, outfile, unmatchedFile >>

\* The address the pending request of the iteration goes to, <<>> if the
\* iteration is at no request.
PendingAddress ==
    IF pc = "tier1" THEN primary_addr
    ELSE IF pc = "tier2" /\ HospitalTierApplies(build_hospital_address(row), primary_addr)
         THEN build_hospital_address(row)
    ELSE IF pc = "tier3" /\ CityTierApplies(lat, lon, build_city_address(row))
         THEN build_city_address(row)
    ELSE <<>>

PendingTier == IF pc = "tier1" THEN 1 ELSE IF pc = "tier2" THEN 2 ELSE 3

\* Lines 69-71: the request times out, gets an error status or a body that
\* is no JSON; the exception leaves main() and the with block closes the file.
LookupFails ==
    /\ PendingAddress # <<>>
    /\ tried' = Append(tried, [ tier |-> PendingTier, addr |-> PendingAddress,
                                 matched |-> FALSE ])
    /\ calls' = calls (+) SetToBag({ <<PendingTier, PendingAddress>> })
    /\ outfile' = "closed"
    /\ pc' = "failed"
    /\ UNCHANGED << setupVars, idx, row, primary_addr, lat, lon, conf, source,
                    mode, cache, cache0, rowSleeps, unmatched_rows, out,
                    unmatchedFile >>

\* Variant of StoreResult that sleeps once per request sent.
StoreResult_PerRequest ==
    /\ pc = "store"
    /\ cache' = (primary_addr :> <<lat, lon, conf>>) @@ cache
    /\ rowSleeps' = rowSleeps + Len(tried)
    /\ pc' = "round"
    /\ UNCHANGED << setupVars, idx, row, primary_addr, lat, lon, conf, source,
                    mode, cache0, tried, calls, unmatched_rows, out, outfile,
                    unmatchedFile >>

\* Lines 180-181: the result goes to the cache, then the delay.
StoreResult ==
    /\ pc = "store"
    /\ cache' = (primary_addr :> <<lat, lon, conf>>) @@ cache
    /\ rowSleeps' = rowSleeps + 1
    /\ pc' = "round"
    /\ UNCHANGED << setupVars, idx, row, primary_addr, lat, lon, conf, source,
                    mode, cache0, tried, calls, unmatched_rows, out, outfile,
                    unmatchedFile >>

\* Lines 192-195: the row with its four result columns set.
Augmented(r, la, lo, so, co) ==
    [ r EXCEPT !.Latitude = la, !.Longitude = lo, !.Geo_Source = so,
               !.Geo_Confidence = co ]

\* Line 205: the line the csv writer puts in the output for row i.  The input
\* columns pass through unchanged; the line is kept as the row's index, its
\* primary address and the text of its four result cells.
Written(i, w) ==
    [ idx |-> i,
      primary |-> build_primary_address(w),
      Latitude |-> CellText(w.Latitude),
      Longitude |-> CellText(w.Longitude),
      Geo_Source |-> StrText(w.Geo_Source),
      Geo_Confidence |-> StrText(w.Geo_Confidence) ]

\* Variant of UnmatchedCopy with the hospital and city columns exchanged.
UnmatchedCopy_Swapped(i, w, pa) ==
    [ idx |-> i,
      Latitude |-> w.Latitude,
      Longitude |-> w.Longitude,
      Unmatched_Primary_Address |-> pa,
      Unmatched_Hospital_Address |-> build_city_address(w),
      Unmatched_City_Address |-> build_hospital_address(w) ]

\* Lines 199-202: the copy kept for the unmatched table, as its index, its
\* coordinates and the three address columns added to it.
UnmatchedCopy(i, w, pa) ==
    [ idx |-> i,
      Latitude |-> w.Latitude,
      Longitude |-> w.Longitude,
      Unmatched_Primary_Address |-> pa,
      Unmatched_Hospital_Address |-> build_hospital_address(w),
      Unmatched_City_Address |-> build_city_address(w) ]

\* Lines 184-205: round, fill the result columns, keep the row for the
\* unmatched table if it has no coordinates, write the row.
FinishRow ==
    /\ pc = "round"
    /\ LET rc == RoundCoords(lat, lon, args.round_decimals)
           w == Augmented(row, rc[1], rc[2], source, conf)
       IN  /\ lat' = rc[1]
           /\ lon' = rc[2]
           /\ unmatched_rows' =
                IF IsUnmatched(rc[1], rc[2])
                THEN Append(unmatched_rows, UnmatchedCopy(idx, w, primary_addr))
                ELSE unmatched_rows
           /\ out' = Append(out, Written(idx, w))
    /\ idx' = idx + 1
    /\ pc' = "loop"
    /\ UNCHANGED << setupVars, row, primary_addr, conf, source, mode, cache,
                    cache0, tried, calls, rowSleeps, outfile, unmatchedFile >>

\* Line 210: the range is exhausted and the output file is closed.
EndLoop ==
    /\ pc = "loop"
    /\ idx >= end
    /\ outfile' = "closed"
    /\ pc' = "after"
    /\ UNCHANGED << setupVars, idx, rowVars, cache, calls, unmatched_rows, out,
                    unmatchedFile >>

\* Lines 213-221: the unmatched table is written if there is any such row.
WriteUnmatched ==
    /\ pc = "after"
    /\ unmatchedFile' = (unmatched_rows # <<>>)
    /\ pc' = "done"
    /\ UNCHANGED << setupVars, idx, rowVars, cache, calls, unmatched_rows, out,
                    outfile >>

Next ==
    \/ ReadInput
    \/ CheckColumns
    \/ Prepare
    \/ BeginRow
    \/ Attempt1
    \/ Attempt2
    \/ Attempt3
    \/ LookupFails
    \/ StoreResult
    \/ FinishRow
    \/ EndLoop
    \/ WriteUnmatched

Spec == Init /\ [][Next]_vars

\* ---------------------------------------------------------------- properties
\* The iteration of `row` has written its line: the locals are still those of
\* that iteration and the line is the last one of the output.
RowWritten == pc \in {"loop", "after", "done"} /\ out # <<>>
Last == out[Len(out)]

\* The row came with both coordinates.
HadCoords(r) ==
    /\ r.Latitude.k \notin {"None", "empty"}
    /\ r.Longitude.k \notin {"None", "empty"}

\* The source a row keeps when no tier sets it.
IncomingSource(r) ==
    IF r.Geo_Source = NoneS \/ r.Geo_Source = "" THEN "census" ELSE r.Geo_Source

UnmatchedIdx == { unmatched_rows[i].idx : i \in 1..Len(unmatched_rows) }
SentAddresses == { e[2] : e \in BagToSet(calls) }
TierOneCalls(a) == CopiesIn(<<1, a>>, calls)
TotalCalls(a) ==
    CopiesIn(<<1, a>>, calls) + CopiesIn(<<2, a>>, calls) + CopiesIn(<<3, a>>, calls)
NoTierMatched == \A i \in 1..Len(tried) : ~tried[i].matched

\* C1, as claimed: every address string, whatever tier it is sent for, is
\* sent to the service at most once in a run.
C1_EveryAddressSentOnce ==
    \A a \in SentAddresses : TotalCalls(a) <= 1

\* C1, amended: every primary address is sent as a tier 1 request at most once
\* in a run; a later row that needs resolution and has the same primary
\* address sends no request and is written with the latitude, longitude and
\* confidence of an earlier row of that primary address.
C1_PrimaryLookedUpOnce ==
    /\ \A a \in SentAddresses : TierOneCalls(a) <= 1
    /\ mode = "hit" => tried = <<>>
    /\ (RowWritten /\ mode = "hit") =>
         \E j \in 1..(Len(out) - 1) :
            /\ out[j].primary = Last.primary
            /\ out[j].Latitude = Last.Latitude
            /\ out[j].Longitude = Last.Longitude
            /\ out[j].Geo_Confidence = Last.Geo_Confidence

\* A second row of an already resolved primary address, written from the
\* cache with coordinates.
C1_Witness ==
    /\ RowWritten
    /\ mode = "hit"
    /\ TierOneCalls(primary_addr) = 1
    /\ Last.Latitude.k = "numstr"

\* C2, as claimed: a row that comes with both coordinates is written with the
\* Latitude, Longitude and Geo_Source it came with.
C2_CoordsWrittenVerbatim ==
    (RowWritten /\ HadCoords(row)) =>
        /\ Last.Latitude = CellText(row.Latitude)
        /\ Last.Longitude = CellText(row.Longitude)
        /\ Last.Geo_Source = IncomingSource(row)

\* C2, amended: a row that comes with both coordinates sends no request and
\* is written with its own Geo_Source ("census" if it had none) and with its
\* own coordinates rounded to the --round precision: a Latitude that is no
\* number is written as it came, and so is a Longitude that is no number or
\* whose Latitude is no number.  Processing the written row again writes the
\* same row.
C2_CoordsKeptRounded ==
    (RowWritten /\ HadCoords(row)) =>
        LET d == args.round_decimals
            latNum == row.Latitude.k = "numstr"
            lonNum == row.Longitude.k = "numstr"
            again == RoundCoords(Last.Latitude, Last.Longitude, d)
        IN  /\ tried = <<>>
            /\ Last.Geo_Source = IncomingSource(row)
            /\ Last.Latitude = IF latNum THEN NumStr(RoundTo(row.Latitude.n, d))
                               ELSE row.Latitude
            /\ Last.Longitude = IF latNum /\ lonNum
                                THEN NumStr(RoundTo(row.Longitude.n, d))
                                ELSE row.Longitude
            /\ Last.Latitude.k \notin {"None", "empty"}
            /\ Last.Longitude.k \notin {"None", "empty"}
            /\ CellText(again[1]) = Last.Latitude
            /\ CellText(again[2]) = Last.Longitude
            /\ Last.Geo_Source # ""

\* A row with numeric coordinates of more decimals than the precision, and a
\* source of its own, has been written.
C2_Witness ==
    /\ RowWritten
    /\ HadCoords(row)
    /\ row.Latitude.k = "numstr"
    /\ row.Geo_Source = "manual"
    /\ primary_addr # <<>>
    /\ Last.Latitude # row.Latitude

\* C6, as claimed: a written row is in the unmatched list exactly when its
\* Latitude or Longitude cell is empty in the output.
C6_UnmatchedIffEmptyCoords ==
    RowWritten =>
        ( (Last.idx \in UnmatchedIdx)
          <=> (Last.Latitude = EmptyV \/ Last.Longitude = EmptyV) )

\* The header lacks one of the five required columns.
LacksRequired ==
    \E i \in 1..Len(RequiredCols) : ~InSeq(RequiredCols[i], infile.header)

NothingDone ==
    /\ calls = EmptyBag
    /\ out = <<>>
    /\ outfile = "absent"
    /\ ~unmatchedFile

\* C7, as claimed: a header that lacks a required column ends the run in the
\* error outcome, naming a missing column, with no request sent and nothing
\* written.
C7_MissingColumnIsError ==
    LacksRequired =>
        /\ pc \in {"read", "check", "error"}
        /\ pc = "error" => (InSeq(err, RequiredCols) /\ ~InSeq(err, infile.header))
        /\ NothingDone

\* C7, amended: when the input has at least one data row and its header
\* lacks a required column, the run ends in the error outcome, naming a
\* missing column, with no request sent and nothing written; with no data
\* row the run ends before the header is looked at, also with nothing done.
C7_MissingColumnIsErrorGivenRows ==
    LacksRequired =>
        /\ NothingDone
        /\ IF infile.nrows > 0
           THEN /\ pc \in {"read", "check", "error"}
                /\ pc = "error" =>
                     (InSeq(err, RequiredCols) /\ ~InSeq(err, infile.header))
           ELSE pc \in {"read", "nodata"}

\* The run has ended naming ZIP_Code, which is not the first required column.
C7_Witness ==
    /\ pc = "error"
    /\ err = ZIP_COL
    /\ infile.nrows > 0

TierTag(t) ==
    IF t = 1 THEN "census_primary"
    ELSE IF t = 2 THEN "census_hospital" ELSE "census_city"

\* C3: a row resolved by requests sends them in the order primary, hospital,
\* city, each to the address built for its tier, the hospital one only to a
\* non-empty address other than the primary one; no request follows a request
\* that matched; the row matched by a tier is written with that tier's tag
\* and is not kept as unmatched, and a row no tier matched keeps its source.
C3_FallbackChain ==
    tried # <<>> =>
        LET n == Len(tried) IN
        /\ tried[1].tier = 1
        /\ \A i \in 1..n : \A j \in 1..n : i < j => tried[i].tier < tried[j].tier
        /\ \A i \in 1..n :
              /\ tried[i].tier \in {1, 2, 3}
              /\ tried[i].tier = 1 => tried[i].addr = build_primary_address(row)
              /\ tried[i].tier = 2 =>
                    /\ tried[i].addr = build_hospital_address(row)
                    /\ tried[i].addr # <<>>
                    /\ tried[i].addr # build_primary_address(row)
              /\ tried[i].tier = 3 => tried[i].addr = build_city_address(row)
        /\ \A i \in 1..(n - 1) : ~tried[i].matched
        /\ RowWritten =>
              IF tried[n].matched
              THEN /\ Last.Geo_Source = TierTag(tried[n].tier)
                   /\ Last.idx \notin UnmatchedIdx
                   /\ Last.Latitude.k = "numstr"
                   /\ Last.Longitude.k = "numstr"
              ELSE Last.Geo_Source = IncomingSource(row)

\* A row whose primary and hospital requests found nothing and whose city
\* request matched has been written.
C3_Witness ==
    /\ RowWritten
    /\ Len(tried) = 3
    /\ tried[3].matched
    /\ Last.Geo_Source = "census_city"
    /\ Last.idx \notin UnmatchedIdx

\* C4: a row whose requests all found nothing is the last row kept as
\* unmatched, with the primary, hospital and city addresses built for it, and
\* its Latitude and Longitude cells are empty in the output; the unmatched
\* table is written when the run ends with such a row.
C4_AllTiersFail ==
    /\ (RowWritten /\ tried # <<>> /\ NoTierMatched) =>
          /\ unmatched_rows # <<>>
          /\ LET u == unmatched_rows[Len(unmatched_rows)] IN
                /\ u.idx = Last.idx
                /\ u.Unmatched_Primary_Address = build_primary_address(row)
                /\ u.Unmatched_Hospital_Address = build_hospital_address(row)
                /\ u.Unmatched_City_Address = build_city_address(row)
          /\ Last.Latitude = EmptyV
          /\ Last.Longitude = EmptyV
    /\ (pc = "done" /\ unmatched_rows # <<>>) => unmatchedFile

\* A row whose three requests, to three different addresses, all found
\* nothing has been written.
C4_Witness ==
    /\ RowWritten
    /\ Len(tried) = 3
    /\ NoTierMatched
    /\ build_hospital_address(row) # build_city_address(row)
    /\ Last.idx \in UnmatchedIdx

\* The end of the selected range, from the command line and the row count.
RangeEnd ==
    IF args.hasLimit /\ args.start + args.limit < infile.nrows
    THEN args.start + args.limit
    ELSE infile.nrows
RangeLen == IF RangeEnd > args.start THEN RangeEnd - args.start ELSE 0

\* C5: the lines of the output are, at every moment, the rows of a prefix of
\* the selected range in index order, one line a row, and the whole range
\* once the loop has ended.
C5_OutputFollowsRange ==
    /\ Len(out) <= RangeLen
    /\ \A i \in 1..Len(out) : out[i].idx = args.start + i - 1
    /\ pc \in {"after", "done"} => Len(out) = RangeLen

\* A run with a start offset and a limit has ended with its one row written,
\* a row that was resolved by requests.
C5_Witness ==
    /\ pc = "done"
    /\ args.start = 1
    /\ args.hasLimit
    /\ Len(out) = 1
    /\ tried # <<>>

\* C8: a row that comes with both coordinates, or whose primary address is
\* empty, sends no request, leaves the cache as it was and sleeps not at all;
\* so every request belongs to a row with a primary address and without both
\* coordinates.
C8_NoLookupWithoutNeed ==
    (HadCoords(row) \/ build_primary_address(row) = <<>>) =>
        /\ tried = <<>>
        /\ rowSleeps = 0
        /\ cache = cache0

\* A row with coordinates and a primary address has been written as the second
\* row of a run whose first row sent requests.
C8_Witness ==
    /\ RowWritten
    /\ HadCoords(row)
    /\ build_primary_address(row) # <<>>
    /\ Len(out) = 2
    /\ calls # EmptyBag

\* C9: a row resolved without a cache hit sleeps not before its chain ends
\* and exactly once after it, whatever the number of its requests, and its
\* result, matched or not, is then in the cache under its primary address,
\* the rest of the cache being as before; a row served from the cache
\* neither sleeps nor changes the cache.
C9_StoreAndSleepOnce ==
    /\ (mode = "miss" /\ pc \in {"tier1", "tier2", "tier3", "store", "failed"}) =>
          /\ rowSleeps = 0
          /\ cache = cache0
    /\ (mode = "miss" /\ pc \in {"round", "loop", "after", "done"}) =>
          /\ rowSleeps = 1
          /\ primary_addr \notin DOMAIN cache0
          /\ DOMAIN cache = DOMAIN cache0 \cup { primary_addr }
          /\ \A k \in DOMAIN cache0 : cache[k] = cache0[k]
          /\ pc = "round" => cache[primary_addr] = <<lat, lon, conf>>
          /\ RowWritten =>
                LET c == cache[primary_addr] IN
                /\ Last.Latitude = CellText(
                      IF c[1].k = "None" THEN c[1]
                      ELSE Float(RoundTo(c[1].n, args.round_decimals)))
                /\ Last.Geo_Confidence = StrText(c[3])
                /\ (c[1].k = "None") = NoTierMatched
    /\ mode = "hit" =>
          /\ rowSleeps = 0
          /\ cache = cache0

\* A row has stored an absent result after three requests, with one sleep.
C9_Witness ==
    /\ pc = "round"
    /\ mode = "miss"
    /\ Len(tried) = 3
    /\ rowSleeps = 1
    /\ cache[primary_addr] = Absent

\* C10: a row served from the cache gets the cached latitude, longitude and
\* confidence and is written with them (the coordinates rounded), while its
\* Geo_Source is the one it came with, "census" if it had none, whatever tier
\* resolved the address first.
C10_CacheHitKeepsSource ==
    mode = "hit" =>
        /\ primary_addr \in DOMAIN cache
        /\ pc = "round" => <<lat, lon, conf>> = cache[primary_addr]
        /\ source = IncomingSource(row)
        /\ RowWritten =>
              LET c == cache[primary_addr] IN
              /\ Last.Geo_Source = IncomingSource(row)
              /\ Last.Geo_Source \notin {"census_primary", "census_hospital", "census_city"}
              /\ Last.Latitude = CellText(
                    IF c[1].k = "None" THEN c[1]
                    ELSE Float(RoundTo(c[1].n, args.round_decimals)))
              /\ Last.Longitude = CellText(
                    IF c[2].k = "None" THEN c[2]
                    ELSE Float(RoundTo(c[2].n, args.round_decimals)))
              /\ Last.Geo_Confidence = StrText(c[3])

\* Two written rows of one primary address carry different sources: the
\* first was matched by a tier, the second came from the cache with a source
\* of its own.
C10_Witness ==
    /\ RowWritten
    /\ mode = "hit"
    /\ Last.Geo_Source = "manual"
    /\ \E j \in 1..(Len(out) - 1) :
          /\ out[j].primary = Last.primary
          /\ out[j].Geo_Source = "census_hospital"
          /\ out[j].Latitude = Last.Latitude

====
